---- MODULE Spec2Model ----
(***************************************************************************)
(* IoT sensor producer: the Kafka publishing coordinator (KafkaManager),   *)
(* the anomaly classifier of the sensor simulator, and the application     *)
(* start-up (lifespan).                                                    *)
(*                                                                         *)
(* Five specifications share the variables:                                *)
(*   Spec     the KafkaManager object driven by its callers, one action    *)
(*            per method, the broker client library as the environment;    *)
(*   SpecApp  the process start-up as main.py runs it;                     *)
(*   SpecSim  the classifier applied to readings drawn from bounded sets;  *)
(*   SpecGen  the generator of the simulator, its random draws as inputs;  *)
(*   SpecApi  the request handlers of api/sensors.py and api/stats.py.     *)
(*                                                                         *)
(* Sensor values are fixed-point integers in hundredths (22.50 is 2250),   *)
(* the resolution round(x, 2) leaves; values before rounding are in        *)
(* thousandths.                                                            *)
(***************************************************************************)
EXTENDS Integers, Sequences, FiniteSets, TLC

VARIABLES
    kafka_manager,   \* the KafkaManager object: its five fields
    broker_topics,   \* environment: names of the topics that exist at the broker
    ret,             \* the last completed call: operation, arguments, result
    trace,           \* what the last call did, in order: client calls and flag writes
    ever_connected,  \* history: is_connected was true at the end of some call
    app,             \* main.py: position of lifespan, routers, requests
    config,          \* core/config.py: the configuration loaded from the environment
    sensor_simulator,\* the SensorSimulator object: its event counter
    reading,         \* a SensorData value: handed to the classifier, or generated
    alerts,          \* the list detect_anomalies returned for reading
    batch,           \* the list generate_batch returned
    statistics,      \* main.py: the dict of the two cumulative counters
    response         \* what the last request handler answered

vars == <<kafka_manager, broker_topics, ret, trace, ever_connected,
          app, config, sensor_simulator, reading, alerts, batch, statistics,
          response>>

coordVars == <<kafka_manager, broker_topics, ret, trace, ever_connected>>
appVars == <<app, config, statistics, response>>
simVars == <<sensor_simulator, reading, alerts, batch>>

----------------------------------------------------------------------------
(* Bounds *)

\* longest message list handed to publish_batch
MaxBatch == 3
\* HTTP requests sent to the process
MaxRequests == 2
\* largest event counter the classifier is started with
MaxEvents == 1
\* clock seconds that pass while one reading is classified
MaxClock == 1
\* largest count of one generate_batch call and of one trigger request
MaxCount == 2
\* readings generated, and sensors triggered, over one run
MaxTotal == 3

----------------------------------------------------------------------------
(* Python values and exceptions *)

\* Python's None, True, False as returned values
PyNone == "None"
PyTrue == "True"
PyFalse == "False"

\* bool(v) of a returned value, as `if not x` applies it
Truthy(v) == v = PyTrue

\* Exception classes the model raises; every one is an Exception subclass
KafkaErrors == {"KafkaError", "KafkaTimeoutError", "TopicAlreadyExistsError",
                "NoBrokersAvailable"}
OtherErrors == {"TypeError", "AttributeError", "Exception"}

\* isinstance(e, KafkaError), the first except clause of publish_message
IsKafkaError(e) == e \in KafkaErrors

\* isinstance(e, Exception), the catch-all except clauses
IsException(e) == e \in KafkaErrors \cup OtherErrors

\* The class name of an exception, in CamelCase words
ClassName(e) ==
    CASE e = "TopicAlreadyExistsError" -> <<"Topic", "Already", "Exists", "Error">>
      [] e = "KafkaTimeoutError" -> <<"Kafka", "Timeout", "Error">>
      [] e = "KafkaError" -> <<"Kafka", "Error">>
      [] e = "NoBrokersAvailable" -> <<"No", "Brokers", "Available">>
      [] e = "TypeError" -> <<"Type", "Error">>
      [] e = "AttributeError" -> <<"Attribute", "Error">>
      [] OTHER -> <<"Exception">>

\* Module of the exception class
ClassModule(e) == IF e \in KafkaErrors THEN <<"kafka", ".", "errors", ".">> ELSE <<>>

\* str(type(e)): "<class 'kafka.errors.TopicAlreadyExistsError'>"
StrType(e) == <<"<class '">> \o ClassModule(e) \o ClassName(e) \o <<"'>">>

\* needle in hay, for strings as word sequences
Contains(needle, hay) ==
    \E i \in 1..(Len(hay) - Len(needle) + 1) :
        SubSeq(hay, i, i + Len(needle) - 1) = needle

\* The literal the except clause of ensure_topics_exist looks for
AlreadyExistsLiteral == <<"Topic", "Already", "Exists", "Exception">>

\* One entry of the trace: a call (on the client library, of publish_message,
\* or a flag write), how it ended ("ok", the value returned, or the exception
\* class raised), and the payload it was given (0 when it takes none)
EvA(c, r, a) == [call |-> c, result |-> r, arg |-> a]
Ev(c, r) == EvA(c, r, 0)

\* The result of a method: the object after it, what it returned, whether an
\* exception left it, and what it did
Result(self, value, count, raised, tr) ==
    [self |-> self, value |-> value, count |-> count, raised |-> raised, trace |-> tr]

----------------------------------------------------------------------------
(* KafkaManager *)

\* Handle fields hold None, a live client object, or a client object that
\* has been closed (the reference is kept)
Handles == {"None", "open", "closed"}

\* bool(handle): any object is truthy, None is not
Present(h) == h # "None"

\* The methods class KafkaManager defines; attribute lookup of any other name
\* raises AttributeError
KafkaManagerMethods == {"__init__", "initialize", "ensure_topics_exist",
                        "publish_message", "publish_batch",
                        "get_connection_status", "close"}

\* KafkaManager.__init__
KafkaManager(bootstrap_servers, client_id) ==
    [bootstrap_servers |-> bootstrap_servers,
     client_id |-> client_id,
     producer |-> "None",
     admin_client |-> "None",
     is_connected |-> FALSE]

\* The except clause of initialize: flag cleared, False returned
initialize_except(self, tr) ==
    Result([self EXCEPT !.is_connected = FALSE], PyFalse, 0, FALSE,
           tr \o <<Ev("is_connected=False", "ok")>>)

\* Faulty variant of initialize: the except clause leaves the flag as the
\* try block set it
initialize_KeepsFlag(self, o) ==
    LET tAdmin == <<Ev("KafkaAdminClient", o.admin)>>
        tProd == tAdmin \o <<Ev("KafkaProducer", o.producer)>>
    IN  IF o.admin # "ok" THEN Result(self, PyFalse, 0, FALSE, tAdmin)
        ELSE IF o.producer # "ok"
        THEN Result([self EXCEPT !.admin_client = "open"], PyFalse, 0, FALSE, tProd)
        ELSE Result([self EXCEPT !.admin_client = "open", !.producer = "open",
                                 !.is_connected = TRUE],
                    PyFalse, 0, FALSE,
                    tProd \o <<Ev("is_connected=True", "ok"),
                               Ev("self._ensure_topics_exist", "AttributeError")>>)

\* KafkaManager.initialize; o.admin and o.producer are how the two client
\* constructors end
initialize(self, o) ==
    LET tAdmin == <<Ev("KafkaAdminClient", o.admin)>>
        tProd == tAdmin \o <<Ev("KafkaProducer", o.producer)>>
        s1 == [self EXCEPT !.admin_client = "open"]
        s2 == [s1 EXCEPT !.producer = "open"]
        s3 == [s2 EXCEPT !.is_connected = TRUE]
        tConn == tProd \o <<Ev("is_connected=True", "ok")>>
    IN  IF o.admin # "ok" THEN initialize_except(self, tAdmin)
        ELSE IF o.producer # "ok" THEN initialize_except(s1, tProd)
        ELSE IF "_ensure_topics_exist" \notin KafkaManagerMethods
        THEN initialize_except(s3,
                 tConn \o <<Ev("self._ensure_topics_exist", "AttributeError")>>)
        \* the try block ends without a return statement
        ELSE Result(s3, PyNone, 0, FALSE, tConn)

\* The state lines 52-68 of initialize establish: both handles open, flag set
Connected(self) ==
    [self EXCEPT !.admin_client = "open", !.producer = "open", !.is_connected = TRUE]

\* One topic configuration dict, as get_kafka_topics_config builds it
TopicConfig(name) == [name |-> name, partitions |-> 1, replication |-> 1]

\* [config["name"] for config in topics_config]
RECURSIVE TopicNamesOf(_)
TopicNamesOf(topics_config) ==
    IF topics_config = <<>> THEN {}
    ELSE {Head(topics_config).name} \cup TopicNamesOf(Tail(topics_config))

\* admin_client.create_topics(new_topics=topics, validate_only=False) at the
\* broker: o is how the request ends when the broker has nothing against it.
\* A closed client raises; a request naming an existing topic is rejected
\* with TopicAlreadyExistsError, the topics not yet there having been created.
create_topics(handle, names, broker, o) ==
    IF handle = "closed"
    THEN [result |-> IF o = "ok" THEN "KafkaError" ELSE o, broker |-> broker]
    ELSE IF o # "ok" THEN [result |-> o, broker |-> broker]
    ELSE IF names \cap broker # {}
    THEN [result |-> "TopicAlreadyExistsError", broker |-> broker \cup names]
    ELSE [result |-> "ok", broker |-> broker \cup names]

\* KafkaManager.ensure_topics_exist
ensure_topics_exist(self, topics_config, broker, o) ==
    IF ~Present(self.admin_client)
    THEN [res |-> Result(self, PyFalse, 0, FALSE, <<>>), broker |-> broker]
    ELSE
    LET c == create_topics(self.admin_client, TopicNamesOf(topics_config), broker, o)
        tr == <<Ev("admin_client.create_topics", c.result)>>
    IN  IF c.result = "ok"
        THEN [res |-> Result(self, PyTrue, 0, FALSE, tr), broker |-> c.broker]
        ELSE IF Contains(AlreadyExistsLiteral, StrType(c.result))
        THEN [res |-> Result(self, PyTrue, 0, FALSE, tr), broker |-> c.broker]
        ELSE [res |-> Result(self, PyFalse, 0, FALSE, tr), broker |-> c.broker]

\* producer.send(topic, value=message): o.send is how the call ends on a live
\* producer ("ok", or the exception the serializer or the client raises); a
\* closed producer raises
producer_send(handle, o) ==
    IF handle = "closed" /\ o.send = "ok" THEN "KafkaError" ELSE o.send

\* The body of publish_message after its guard: send, then future.get(timeout=10);
\* the exception raised, or "ok" on acknowledgment, with the calls made
send_and_wait(self, o) ==
    LET s == producer_send(self.producer, o)
    IN  IF s # "ok" THEN [exc |-> s, trace |-> <<Ev("producer.send", s)>>]
        ELSE [exc |-> o.get,
              trace |-> <<Ev("producer.send", "ok"), Ev("future.get", o.get)>>]

\* Faulty variant of publish_message: only KafkaError is caught
publish_message_KafkaErrorOnly(self, topic, message, o) ==
    IF ~self.is_connected \/ ~Present(self.producer)
    THEN Result(self, PyFalse, 0, FALSE, <<>>)
    ELSE LET r == send_and_wait(self, o)
         IN  IF r.exc = "ok" THEN Result(self, PyTrue, 0, FALSE, r.trace)
             ELSE IF IsKafkaError(r.exc) THEN Result(self, PyFalse, 0, FALSE, r.trace)
             ELSE Result(self, PyNone, 0, TRUE, r.trace)

\* Faulty variant of publish_message: a failed publish clears the flag
publish_message_DisconnectsOnFailure(self, topic, message, o) ==
    IF ~self.is_connected \/ ~Present(self.producer)
    THEN Result(self, PyFalse, 0, FALSE, <<>>)
    ELSE LET r == send_and_wait(self, o)
         IN  IF r.exc = "ok" THEN Result(self, PyTrue, 0, FALSE, r.trace)
             ELSE IF IsException(r.exc)
             THEN Result([self EXCEPT !.is_connected = FALSE], PyFalse, 0, FALSE, r.trace)
             ELSE Result(self, PyNone, 0, TRUE, r.trace)

\* KafkaManager.publish_message
publish_message(self, topic, message, o) ==
    IF ~self.is_connected \/ ~Present(self.producer)
    THEN Result(self, PyFalse, 0, FALSE, <<>>)
    ELSE LET r == send_and_wait(self, o)
         IN  IF r.exc = "ok" THEN Result(self, PyTrue, 0, FALSE, r.trace)
             ELSE IF IsKafkaError(r.exc) THEN Result(self, PyFalse, 0, FALSE, r.trace)
             ELSE IF IsException(r.exc) THEN Result(self, PyFalse, 0, FALSE, r.trace)
             ELSE Result(self, PyNone, 0, TRUE, r.trace)

\* The for loop of publish_batch over messages[i..]: os[i] is how the
\* transport treats message i
RECURSIVE publish_loop(_, _, _, _, _, _, _)
publish_loop(self, topic, messages, os, i, published_count, tr) ==
    IF i > Len(messages) THEN [published_count |-> published_count, trace |-> tr]
    ELSE LET r == publish_message(self, topic, messages[i], os[i])
         IN  publish_loop(self, topic, messages, os, i + 1,
                          IF Truthy(r.value) THEN published_count + 1
                          ELSE published_count,
                          tr \o <<EvA("publish_message", r.value, messages[i].payload)>>
                             \o r.trace)

\* Faulty variant of publish_batch: no test of the flag and of the producer
\* before the loop
publish_batch_NoGuard(self, topic, messages, os, flush) ==
    LET l == publish_loop(self, topic, messages, os, 1, 0, <<>>)
        tr == l.trace \o <<Ev("producer.flush", flush)>>
    IN  IF flush # "ok" THEN Result(self, PyNone, 0, TRUE, tr)
        ELSE Result(self, PyNone, l.published_count, FALSE, tr)

\* Faulty variant of publish_batch: the buffer is flushed only when some
\* message failed
publish_batch_FlushOnFailure(self, topic, messages, os, flush) ==
    IF ~self.is_connected \/ ~Present(self.producer)
    THEN Result(self, PyNone, 0, FALSE, <<>>)
    ELSE LET l == publish_loop(self, topic, messages, os, 1, 0, <<>>)
         IN  IF l.published_count = Len(messages)
             THEN Result(self, PyNone, l.published_count, FALSE, l.trace)
             ELSE LET tr == l.trace \o <<Ev("producer.flush", flush)>>
                  IN  IF flush # "ok" THEN Result(self, PyNone, 0, TRUE, tr)
                      ELSE Result(self, PyNone, l.published_count, FALSE, tr)

\* KafkaManager.publish_batch; flush is how producer.flush() ends. The count
\* returned is in the count field; an exception of flush leaves the method.
publish_batch(self, topic, messages, os, flush) ==
    IF ~self.is_connected \/ ~Present(self.producer)
    THEN Result(self, PyNone, 0, FALSE, <<>>)
    ELSE LET l == publish_loop(self, topic, messages, os, 1, 0, <<>>)
             tr == l.trace \o <<Ev("producer.flush", flush)>>
         IN  IF flush # "ok" THEN Result(self, PyNone, 0, TRUE, tr)
             ELSE Result(self, PyNone, l.published_count, FALSE, tr)

\* {connected, bootstrap_servers, client_id, producer_available,
\* admin_client_available}
get_connection_status(self) ==
    [connected |-> self.is_connected,
     bootstrap_servers |-> self.bootstrap_servers,
     client_id |-> self.client_id,
     producer_available |-> self.producer # "None",
     admin_client_available |-> self.admin_client # "None"]

\* A client's close(): the handle after it. A close that raised has released
\* the client or not (o_released)
closed_handle(result, o_released) ==
    IF result = "ok" \/ o_released THEN "closed" ELSE "open"

\* Faulty variant of close: the handles are used without the None checks
close_NoNoneCheck(self, o) ==
    LET tf == <<Ev("producer.flush",
                   IF Present(self.producer) THEN o.flush ELSE "AttributeError")>>
    IN  IF ~Present(self.producer) \/ o.flush # "ok"
        THEN Result(self, PyNone, 0, FALSE, tf)
        ELSE Result([self EXCEPT !.producer = "closed", !.admin_client = "closed",
                                 !.is_connected = FALSE],
                    PyNone, 0, FALSE,
                    tf \o <<Ev("producer.close", "ok"), Ev("admin_client.close", "ok"),
                            Ev("is_connected=False", "ok")>>)

\* Faulty variant of close: a handle is set to None once its client has been
\* closed; the flag is still cleared last
close_ClearsHandles(self, o) ==
    LET hasP == Present(self.producer)
        hasA == Present(self.admin_client)
        tFlush == IF hasP THEN <<Ev("producer.flush", o.flush)>> ELSE <<>>
        flushRaised == hasP /\ o.flush # "ok"
        tPClose == IF hasP THEN tFlush \o <<Ev("producer.close", o.producer_close)>>
                   ELSE tFlush
        sP == IF hasP /\ o.producer_close = "ok"
              THEN [self EXCEPT !.producer = "None"]
              ELSE self
        pcloseRaised == hasP /\ o.producer_close # "ok"
        tAClose == IF hasA THEN tPClose \o <<Ev("admin_client.close", o.admin_close)>>
                   ELSE tPClose
        sA == IF hasA /\ o.admin_close = "ok"
              THEN [sP EXCEPT !.admin_client = "None"]
              ELSE sP
        acloseRaised == hasA /\ o.admin_close # "ok"
    IN  IF flushRaised THEN Result(self, PyNone, 0, FALSE, tFlush)
        ELSE IF pcloseRaised THEN Result(sP, PyNone, 0, FALSE, tPClose)
        ELSE IF acloseRaised THEN Result(sA, PyNone, 0, FALSE, tAClose)
        ELSE Result([sA EXCEPT !.is_connected = FALSE], PyNone, 0, FALSE,
                    tAClose \o <<Ev("is_connected=False", "ok")>>)

\* KafkaManager.close; o.flush, o.producer_close and o.admin_close are how the
\* three client calls end. The first that raises takes the method to its
\* except clause, which logs and returns.
close(self, o) ==
    LET hasP == Present(self.producer)
        hasA == Present(self.admin_client)
        tFlush == IF hasP THEN <<Ev("producer.flush", o.flush)>> ELSE <<>>
        flushRaised == hasP /\ o.flush # "ok"
        tPClose == IF hasP THEN tFlush \o <<Ev("producer.close", o.producer_close)>>
                   ELSE tFlush
        sP == IF hasP
              THEN [self EXCEPT !.producer = closed_handle(o.producer_close, o.released)]
              ELSE self
        pcloseRaised == hasP /\ o.producer_close # "ok"
        tAClose == IF hasA THEN tPClose \o <<Ev("admin_client.close", o.admin_close)>>
                   ELSE tPClose
        sA == IF hasA
              THEN [sP EXCEPT !.admin_client = closed_handle(o.admin_close, o.released)]
              ELSE sP
        acloseRaised == hasA /\ o.admin_close # "ok"
    IN  IF flushRaised THEN Result(self, PyNone, 0, FALSE, tFlush)
        ELSE IF pcloseRaised THEN Result(sP, PyNone, 0, FALSE, tPClose)
        ELSE IF acloseRaised THEN Result(sA, PyNone, 0, FALSE, tAClose)
        ELSE Result([sA EXCEPT !.is_connected = FALSE], PyNone, 0, FALSE,
                    tAClose \o <<Ev("is_connected=False", "ok")>>)

----------------------------------------------------------------------------
(* SensorSimulator: the anomaly classifier *)

\* SensorSimulator.alert_thresholds, in hundredths
alert_thresholds ==
    [temperature |-> [low |-> 1800, high |-> 2600, critical |-> 3000],
     humidity |-> [low |-> 3000, high |-> 8000, critical |-> 9000],
     pressure |-> [low |-> 100000, high |-> 102500],
     battery |-> [low |-> 20, critical |-> 10]]

\* SensorSimulator.__init__ (the fields the model reads)
SensorSimulator == [event_counter |-> 0]

\* SensorData(sensor_id, temperature, humidity, pressure, battery_level)
SensorData(sensor_id, temperature, humidity, pressure, battery_level) ==
    [sensor_id |-> sensor_id, temperature |-> temperature, humidity |-> humidity,
     pressure |-> pressure, battery_level |-> battery_level]

\* SensorSimulator._create_alert; now is the clock second it reads
_create_alert(self, sensor_data, alert_type, severity, value, threshold, message, now) ==
    [alert_id |-> <<"alert", self.event_counter, alert_type, now>>,
     sensor_id |-> sensor_data.sensor_id,
     alert_type |-> alert_type,
     severity |-> severity,
     value |-> value,
     threshold |-> threshold,
     message |-> message]

\* Faulty variant of _check_temperature_alerts: the second test is an `if`,
\* not an `elif`
_check_temperature_alerts_IfNotElif(self, sensor_data, now) ==
    LET temp == sensor_data.temperature
        thresholds == alert_thresholds.temperature
        crit == IF temp >= thresholds.critical
                THEN <<_create_alert(self, sensor_data, "temperature", "critical", temp,
                                     thresholds.critical,
                                     <<"Temperature critique", temp, thresholds.critical>>,
                                     now)>>
                ELSE <<>>
    IN  IF temp >= thresholds.high
        THEN crit \o <<_create_alert(self, sensor_data, "temperature", "high", temp,
                                     thresholds.high,
                                     <<"Temperature elevee", temp, thresholds.high>>, now)>>
        ELSE IF temp <= thresholds.low
        THEN crit \o <<_create_alert(self, sensor_data, "temperature", "low", temp,
                                     thresholds.low,
                                     <<"Temperature basse", temp, thresholds.low>>, now)>>
        ELSE crit

\* Faulty variant of _check_temperature_alerts: the critical bound is
\* exclusive (> instead of >=)
_check_temperature_alerts_Exclusive(self, sensor_data, now) ==
    LET temp == sensor_data.temperature
        thresholds == alert_thresholds.temperature
    IN  IF temp > thresholds.critical
        THEN <<_create_alert(self, sensor_data, "temperature", "critical", temp,
                             thresholds.critical,
                             <<"Temperature critique", temp, thresholds.critical>>, now)>>
        ELSE IF temp >= thresholds.high
        THEN <<_create_alert(self, sensor_data, "temperature", "high", temp,
                             thresholds.high,
                             <<"Temperature elevee", temp, thresholds.high>>, now)>>
        ELSE IF temp <= thresholds.low
        THEN <<_create_alert(self, sensor_data, "temperature", "low", temp,
                             thresholds.low,
                             <<"Temperature basse", temp, thresholds.low>>, now)>>
        ELSE <<>>

\* SensorSimulator._check_temperature_alerts
_check_temperature_alerts(self, sensor_data, now) ==
    LET temp == sensor_data.temperature
        thresholds == alert_thresholds.temperature
    IN  IF temp >= thresholds.critical
        THEN <<_create_alert(self, sensor_data, "temperature", "critical", temp,
                             thresholds.critical,
                             <<"Temperature critique", temp, thresholds.critical>>, now)>>
        ELSE IF temp >= thresholds.high
        THEN <<_create_alert(self, sensor_data, "temperature", "high", temp,
                             thresholds.high,
                             <<"Temperature elevee", temp, thresholds.high>>, now)>>
        ELSE IF temp <= thresholds.low
        THEN <<_create_alert(self, sensor_data, "temperature", "low", temp,
                             thresholds.low,
                             <<"Temperature basse", temp, thresholds.low>>, now)>>
        ELSE <<>>

\* SensorSimulator._check_humidity_alerts
_check_humidity_alerts(self, sensor_data, now) ==
    LET humidity == sensor_data.humidity
        thresholds == alert_thresholds.humidity
    IN  IF humidity >= thresholds.critical
        THEN <<_create_alert(self, sensor_data, "humidity", "critical", humidity,
                             thresholds.critical,
                             <<"Humidite critique", humidity, thresholds.critical>>, now)>>
        ELSE IF humidity >= thresholds.high
        THEN <<_create_alert(self, sensor_data, "humidity", "high", humidity,
                             thresholds.high,
                             <<"Humidite elevee", humidity, thresholds.high>>, now)>>
        ELSE IF humidity <= thresholds.low
        THEN <<_create_alert(self, sensor_data, "humidity", "low", humidity,
                             thresholds.low,
                             <<"Humidite basse", humidity, thresholds.low>>, now)>>
        ELSE <<>>

\* Faulty variant of _check_pressure_alerts: the low-pressure alert carries
\* the high bound as its threshold
_check_pressure_alerts_WrongThreshold(self, sensor_data, now) ==
    LET pressure == sensor_data.pressure
        thresholds == alert_thresholds.pressure
    IN  IF pressure >= thresholds.high
        THEN <<_create_alert(self, sensor_data, "pressure", "medium", pressure,
                             thresholds.high,
                             <<"Pression elevee", pressure, thresholds.high>>, now)>>
        ELSE IF pressure <= thresholds.low
        THEN <<_create_alert(self, sensor_data, "pressure", "medium", pressure,
                             thresholds.high,
                             <<"Pression basse", pressure, thresholds.low>>, now)>>
        ELSE <<>>

\* SensorSimulator._check_pressure_alerts
_check_pressure_alerts(self, sensor_data, now) ==
    LET pressure == sensor_data.pressure
        thresholds == alert_thresholds.pressure
    IN  IF pressure >= thresholds.high
        THEN <<_create_alert(self, sensor_data, "pressure", "medium", pressure,
                             thresholds.high,
                             <<"Pression elevee", pressure, thresholds.high>>, now)>>
        ELSE IF pressure <= thresholds.low
        THEN <<_create_alert(self, sensor_data, "pressure", "medium", pressure,
                             thresholds.low,
                             <<"Pression basse", pressure, thresholds.low>>, now)>>
        ELSE <<>>

\* Faulty variant of _check_battery_alerts: the low bound is tested first
_check_battery_alerts_LowFirst(self, sensor_data, now) ==
    LET battery == sensor_data.battery_level
        thresholds == alert_thresholds.battery
    IN  IF battery <= thresholds.low
        THEN <<_create_alert(self, sensor_data, "battery", "medium", battery,
                             thresholds.low,
                             <<"Batterie faible", battery, thresholds.low>>, now)>>
        ELSE IF battery <= thresholds.critical
        THEN <<_create_alert(self, sensor_data, "battery", "critical", battery,
                             thresholds.critical,
                             <<"Batterie critique", battery, thresholds.critical>>, now)>>
        ELSE <<>>

\* SensorSimulator._check_battery_alerts
_check_battery_alerts(self, sensor_data, now) ==
    LET battery == sensor_data.battery_level
        thresholds == alert_thresholds.battery
    IN  IF battery <= thresholds.critical
        THEN <<_create_alert(self, sensor_data, "battery", "critical", battery,
                             thresholds.critical,
                             <<"Batterie critique", battery, thresholds.critical>>, now)>>
        ELSE IF battery <= thresholds.low
        THEN <<_create_alert(self, sensor_data, "battery", "medium", battery,
                             thresholds.low,
                             <<"Batterie faible", battery, thresholds.low>>, now)>>
        ELSE <<>>

\* SensorSimulator.detect_anomalies; now[d] is the clock second read while
\* the alert of dimension d is created
detect_anomalies(self, sensor_data, now) ==
    _check_temperature_alerts(self, sensor_data, now.temperature)
    \o _check_humidity_alerts(self, sensor_data, now.humidity)
    \o _check_pressure_alerts(self, sensor_data, now.pressure)
    \o _check_battery_alerts(self, sensor_data, now.battery)

----------------------------------------------------------------------------
(* SensorSimulator: the generator *)

\* SensorSimulator.normal_ranges, in hundredths
normal_ranges ==
    [temperature |-> [mean |-> 2200, std |-> 200, min |-> 1500, max |-> 3500],
     humidity |-> [mean |-> 5500, std |-> 800, min |-> 2000, max |-> 9500],
     pressure |-> [mean |-> 101325, std |-> 500, min |-> 98000, max |-> 104000],
     battery |-> [min |-> 30, max |-> 100]]

\* A value of hundredths in thousandths, the unit of values not yet rounded
Milli(h) == h * 10

\* Python's max(a, b) and min(a, b)
py_max(a, b) == IF a >= b THEN a ELSE b
py_min(a, b) == IF a <= b THEN a ELSE b

\* random.gauss(mu, sigma): mu plus a deviation, which can be any real; dev
\* is the deviation drawn, in thousandths
gauss(mu, dev) == mu + dev

\* random.uniform(a, b): a + (b - a) * random(); u is the fraction random()
\* drew, in thousandths
uniform(a, b, u) == a + ((b - a) * u) \div 1000

\* round(x, 2) of x in thousandths, in hundredths: the nearest hundredth; at
\* a tie the binary representation of x decides, up says which way
round2(x, up) ==
    LET q == x \div 10
        r == x % 10
    IN  IF r < 5 THEN q
        ELSE IF r > 5 THEN q + 1
        ELSE IF up THEN q + 1 ELSE q

\* f'sensor_{i:03d}': the decimal digits of i, zero-padded to three or more
RECURSIVE DigitsOf(_)
DigitsOf(i) == IF i < 10 THEN <<i>> ELSE DigitsOf(i \div 10) \o <<i % 10>>
FormatSensorId(i) ==
    LET ds == DigitsOf(i)
    IN  [prefix |-> "sensor_",
         digits |-> [k \in 1..(3 - Len(ds)) |-> 0] \o ds]

\* The field constraints of SensorData: temperature ge=15 le=35, humidity
\* ge=20 le=95, battery_level ge=0 le=1, pressure unconstrained; the
\* constructor raises ValidationError when one is not met
SensorDataAccepts(temperature, humidity, pressure, battery_level) ==
    /\ temperature >= 1500 /\ temperature <= 3500
    /\ humidity >= 2000 /\ humidity <= 9500
    /\ battery_level >= 0 /\ battery_level <= 100

\* The value of a call that raised before it had a reading to return
NoSensorData == SensorData([prefix |-> "", digits |-> <<>>], 0, 0, 0, 0)

\* Faulty variant of generate_sensor_data: the pressure is not clamped
generate_sensor_data_UnclampedPressure(self, sensor_id, d) ==
    LET temp_config == normal_ranges.temperature
        temperature ==
            round2(py_max(Milli(temp_config.min),
                          py_min(Milli(temp_config.max),
                                 gauss(Milli(temp_config.mean), d.temperature))),
                   d.up)
        humid_config == normal_ranges.humidity
        humidity_adjustment == (Milli(temperature) - Milli(temp_config.mean)) * (-2)
        humidity ==
            round2(py_max(Milli(humid_config.min),
                          py_min(Milli(humid_config.max),
                                 gauss(Milli(humid_config.mean) + humidity_adjustment,
                                       d.humidity))),
                   d.up)
        pressure_config == normal_ranges.pressure
        pressure == round2(gauss(Milli(pressure_config.mean), d.pressure), d.up)
        battery_config == normal_ranges.battery
        battery_level ==
            round2(uniform(Milli(battery_config.min), Milli(battery_config.max),
                           d.battery),
                   d.up)
        self1 == [self EXCEPT !.event_counter = @ + 1]
    IN  IF SensorDataAccepts(temperature, humidity, pressure, battery_level)
        THEN Result(self1,
                    SensorData(sensor_id, temperature, humidity, pressure, battery_level),
                    0, FALSE, <<>>)
        ELSE Result(self1, NoSensorData, 0, TRUE, <<>>)

\* SensorSimulator.generate_sensor_data; d holds the four random draws (the
\* deviations of the three normal draws and the uniform draw, in
\* thousandths) and the way ties round
generate_sensor_data(self, sensor_id, d) ==
    LET temp_config == normal_ranges.temperature
        temperature ==
            round2(py_max(Milli(temp_config.min),
                          py_min(Milli(temp_config.max),
                                 gauss(Milli(temp_config.mean), d.temperature))),
                   d.up)
        humid_config == normal_ranges.humidity
        humidity_adjustment == (Milli(temperature) - Milli(temp_config.mean)) * (-2)
        humidity ==
            round2(py_max(Milli(humid_config.min),
                          py_min(Milli(humid_config.max),
                                 gauss(Milli(humid_config.mean) + humidity_adjustment,
                                       d.humidity))),
                   d.up)
        pressure_config == normal_ranges.pressure
        pressure ==
            round2(py_max(Milli(pressure_config.min),
                          py_min(Milli(pressure_config.max),
                                 gauss(Milli(pressure_config.mean), d.pressure))),
                   d.up)
        battery_config == normal_ranges.battery
        battery_level ==
            round2(uniform(Milli(battery_config.min), Milli(battery_config.max),
                           d.battery),
                   d.up)
        self1 == [self EXCEPT !.event_counter = @ + 1]
    IN  IF SensorDataAccepts(temperature, humidity, pressure, battery_level)
        THEN Result(self1,
                    SensorData(sensor_id, temperature, humidity, pressure, battery_level),
                    0, FALSE, <<>>)
        ELSE Result(self1, NoSensorData, 0, TRUE, <<>>)

\* SensorSimulator.generate_custom_sensor_data; pressure and battery_level
\* are <<>> for None and <<v>> for a value; d as in generate_sensor_data
generate_custom_sensor_data(self, sensor_id, temperature, humidity, pressure, battery_level, d) ==
    LET pressure_config == normal_ranges.pressure
        pressure1 ==
            IF pressure = <<>>
            THEN round2(gauss(Milli(pressure_config.mean), d.pressure), d.up)
            ELSE pressure[1]
        battery_config == normal_ranges.battery
        battery_level1 ==
            IF battery_level = <<>>
            THEN round2(uniform(Milli(battery_config.min), Milli(battery_config.max),
                                d.battery),
                        d.up)
            ELSE battery_level[1]
    IN  IF SensorDataAccepts(temperature, humidity, pressure1, battery_level1)
        THEN Result(self,
                    SensorData(sensor_id, temperature, humidity, pressure1,
                               battery_level1),
                    0, FALSE, <<>>)
        ELSE Result(self, NoSensorData, 0, TRUE, <<>>)

\* The for loop of generate_batch from index i on: ds[i] holds the draws of
\* reading i; an exception of generate_sensor_data leaves the loop
RECURSIVE generate_loop(_, _, _, _, _)
generate_loop(self, count, ds, i, batch_) ==
    IF i > count THEN Result(self, batch_, 0, FALSE, <<>>)
    ELSE LET sensor_id == FormatSensorId(i)
             data == generate_sensor_data(self, sensor_id, ds[i])
         IN  IF data.raised THEN Result(data.self, <<>>, 0, TRUE, <<>>)
             ELSE generate_loop(data.self, count, ds, i + 1,
                                Append(batch_, data.value))

\* Faulty variant of generate_batch: the identifiers start at sensor_000
generate_batch_FromZero(self, count, ds) ==
    LET l == generate_loop(self, count, ds, 1, <<>>)
    IN  Result(l.self,
               [i \in DOMAIN l.value |->
                   [l.value[i] EXCEPT !.sensor_id = FormatSensorId(i - 1)]],
               0, l.raised, <<>>)

\* SensorSimulator.generate_batch
generate_batch(self, count, ds) ==
    generate_loop(self, count, ds, 1, <<>>)

----------------------------------------------------------------------------
(* core/config.py and main.py: start-up *)

\* Topic names of api/sensors.py
SENSOR_TOPIC == "sensors"
ALERT_TOPIC == "alerts"

\* ConfigManager.validate_config
validate_config(cfg) ==
    IF Len(cfg.kafka.bootstrap_servers) = 0 THEN FALSE
    ELSE IF ~(1 <= cfg.service.port /\ cfg.service.port <= 65535) THEN FALSE
    ELSE IF cfg.kafka.sensor_topic = "" \/ cfg.kafka.alert_topic = "" THEN FALSE
    ELSE TRUE

\* ConfigManager.get_kafka_topics_config
get_kafka_topics_config(cfg) ==
    <<TopicConfig(cfg.kafka.sensor_topic), TopicConfig(cfg.kafka.alert_topic)>>

\* The module-level state of main.py before lifespan runs: no manager, no
\* simulator, no router
AppStart ==
    [pc |-> "start", exit_code |-> 0, routers |-> FALSE,
     initialize_calls |-> 0, initialize_value |-> PyNone,
     requests_refused |-> 0, requests_handled |-> 0]

\* sys.exit(1) during start-up
sys_exit(a, km, broker, r) ==
    [app |-> [a EXCEPT !.pc = "exited", !.exit_code = 1],
     kafka_manager |-> km, broker |-> broker,
     value |-> r.value, trace |-> r.trace]

\* Faulty variant of lifespan: the result of initialize is not tested
lifespan_IgnoresInitialize(a, cfg, broker, o) ==
    IF ~validate_config(cfg)
    THEN sys_exit(a, PyNone, broker, Result(PyNone, PyNone, 0, FALSE, <<>>))
    ELSE
    LET km == KafkaManager(cfg.kafka.bootstrap_servers, cfg.kafka.client_id)
        i == initialize(km, o.initialize)
        a1 == [a EXCEPT !.initialize_calls = @ + 1, !.initialize_value = i.value]
        e == ensure_topics_exist(i.self, get_kafka_topics_config(cfg), broker, o.create)
    IN  [app |-> [a1 EXCEPT !.pc = "serving", !.routers = TRUE],
         kafka_manager |-> e.res.self, broker |-> e.broker,
         value |-> i.value, trace |-> i.trace \o e.res.trace]

\* lifespan, from its start to the yield: configuration check, KafkaManager,
\* initialize, topics, simulator, routers
lifespan(a, cfg, broker, o) ==
    IF ~validate_config(cfg)
    THEN sys_exit(a, PyNone, broker, Result(PyNone, PyNone, 0, FALSE, <<>>))
    ELSE
    LET km == KafkaManager(cfg.kafka.bootstrap_servers, cfg.kafka.client_id)
        i == initialize(km, o.initialize)
        a1 == [a EXCEPT !.initialize_calls = @ + 1, !.initialize_value = i.value]
        e == ensure_topics_exist(i.self, get_kafka_topics_config(cfg), broker, o.create)
    IN  IF ~Truthy(i.value) THEN sys_exit(a1, i.self, broker, i)
        ELSE [app |-> [a1 EXCEPT !.pc = "serving", !.routers = TRUE],
              kafka_manager |-> e.res.self, broker |-> e.broker,
              value |-> i.value, trace |-> i.trace \o e.res.trace]

\* setup_routers includes the routers; a request reaches a handler only
\* once they are included, and is refused otherwise
dispatch(a) ==
    IF a.routers /\ a.pc = "serving"
    THEN [a EXCEPT !.requests_handled = @ + 1]
    ELSE [a EXCEPT !.requests_refused = @ + 1]

\* main.py: the statistics dict at import
InitialStatistics == [total_events_published |-> 0, total_sensors_triggered |-> 0]

\* No request answered yet
NoResponse ==
    [status_code |-> 0, sensors_triggered |-> 0, events_published |-> 0,
     topic |-> "", previous_stats |-> InitialStatistics]

----------------------------------------------------------------------------
(* api/sensors.py and api/stats.py: the request handlers *)

\* raise HTTPException(status_code=...)
HTTPException(status_code) == [NoResponse EXCEPT !.status_code = status_code]

\* return TriggerResponse(status="success", ...), answered with status 200
TriggerResponse(sensors_triggered, events_published, topic) ==
    [NoResponse EXCEPT !.status_code = 200,
                       !.sensors_triggered = sensors_triggered,
                       !.events_published = events_published,
                       !.topic = topic]

\* One entry of the trace of a handler: a publish_message call, its topic,
\* the index of the reading it is about, the dimension and the alert_id of
\* the alert ("" and <<>> for the reading itself), and the value it returned
Pub(topic, i, alert_type, alert_id, value) ==
    [call |-> "publish_message", result |-> value, arg |-> i,
     topic |-> topic, alert_type |-> alert_type, alert_id |-> alert_id]

\* What a handler leaves: the simulator, the statistics dict, the answer,
\* the readings it generated and the publish calls it made
HandlerResult(sim, stats, resp, batch_, tr) ==
    [sensor_simulator |-> sim, statistics |-> stats, response |-> resp,
     batch |-> batch_, trace |-> tr]

\* `for alert in alerts: if publish_message(ALERT_TOPIC, alert.dict()): n += 1`
\* from alert j on, for reading i; os[j] is how the transport treats alert j
RECURSIVE publish_alerts(_, _, _, _, _, _, _)
publish_alerts(km, alerts_, os, i, j, n, tr) ==
    IF j > Len(alerts_) THEN [count |-> n, trace |-> tr]
    ELSE LET r == publish_message(km, ALERT_TOPIC, alerts_[j], os[j])
         IN  publish_alerts(km, alerts_, os, i, j + 1,
                            IF Truthy(r.value) THEN n + 1 ELSE n,
                            Append(tr, Pub(ALERT_TOPIC, i, alerts_[j].alert_type,
                                           alerts_[j].alert_id, r.value)))

\* Faulty variant of trigger_reading: the alerts are published whether or
\* not the reading was
trigger_reading_Ungated(km, sim, sensor_data, o, now, i, st) ==
    LET r == publish_message(km, SENSOR_TOPIC, sensor_data, o.reading)
        tr == Append(st.trace, Pub(SENSOR_TOPIC, i, "", <<>>, r.value))
        a == publish_alerts(km, detect_anomalies(sim, sensor_data, now), o.alerts,
                            i, 1, 0, tr)
    IN  IF Truthy(r.value)
        THEN [statistics |-> [st.statistics EXCEPT !.total_events_published = @ + 1],
              published_count |-> st.published_count + 1,
              alerts_generated |-> st.alerts_generated + a.count,
              trace |-> a.trace]
        ELSE [st EXCEPT !.trace = a.trace]

\* Faulty variant of trigger_reading: a published alert counts as an event
trigger_reading_CountsAlerts(km, sim, sensor_data, o, now, i, st) ==
    LET r == publish_message(km, SENSOR_TOPIC, sensor_data, o.reading)
        tr == Append(st.trace, Pub(SENSOR_TOPIC, i, "", <<>>, r.value))
    IN  IF Truthy(r.value)
        THEN LET a == publish_alerts(km, detect_anomalies(sim, sensor_data, now),
                                     o.alerts, i, 1, 0, tr)
             IN  [statistics |->
                      [st.statistics EXCEPT !.total_events_published = @ + 1 + a.count],
                  published_count |-> st.published_count + 1 + a.count,
                  alerts_generated |-> st.alerts_generated + a.count,
                  trace |-> a.trace]
        ELSE [st EXCEPT !.trace = tr]

\* The body of the for loop of trigger_sensors for reading i: st holds the
\* statistics dict, published_count, alerts_generated and the trace so far;
\* o is how the transport treats the reading and its alerts
trigger_reading(km, sim, sensor_data, o, now, i, st) ==
    LET r == publish_message(km, SENSOR_TOPIC, sensor_data, o.reading)
        tr == Append(st.trace, Pub(SENSOR_TOPIC, i, "", <<>>, r.value))
    IN  IF Truthy(r.value)
        THEN LET a == publish_alerts(km, detect_anomalies(sim, sensor_data, now),
                                     o.alerts, i, 1, 0, tr)
             IN  [statistics |-> [st.statistics EXCEPT !.total_events_published = @ + 1],
                  published_count |-> st.published_count + 1,
                  alerts_generated |-> st.alerts_generated + a.count,
                  trace |-> a.trace]
        ELSE [st EXCEPT !.trace = tr]

\* Faulty variant of trigger_loop: the loop ends at the first reading whose
\* publish fails
RECURSIVE trigger_loop_StopsOnFailure(_, _, _, _, _, _, _)
trigger_loop_StopsOnFailure(km, sim, batch_, os, now, i, st) ==
    IF i > Len(batch_) THEN st
    ELSE LET st1 == trigger_reading(km, sim, batch_[i], os[i], now, i, st)
         IN  IF st1.published_count = st.published_count THEN st1
             ELSE trigger_loop_StopsOnFailure(km, sim, batch_, os, now, i + 1, st1)

\* `for sensor_data in batch:` of trigger_sensors from reading i on
RECURSIVE trigger_loop(_, _, _, _, _, _, _)
trigger_loop(km, sim, batch_, os, now, i, st) ==
    IF i > Len(batch_) THEN st
    ELSE trigger_loop(km, sim, batch_, os, now, i + 1,
                      trigger_reading(km, sim, batch_[i], os[i], now, i, st))

\* Faulty variant of trigger_sensors: the connection is not tested first
trigger_sensors_NoConnectionCheck(km, sim, stats, count, ds, os, now) ==
    LET b == generate_batch(sim, count, ds)
        l == trigger_loop(km, b.self, b.value, os, now, 1,
                          [statistics |-> stats, published_count |-> 0,
                           alerts_generated |-> 0, trace |-> <<>>])
    IN  IF b.raised
        THEN HandlerResult(b.self, stats, HTTPException(500), <<>>, <<>>)
        ELSE HandlerResult(b.self,
                           [l.statistics EXCEPT !.total_sensors_triggered = @ + count],
                           TriggerResponse(count, l.published_count, SENSOR_TOPIC),
                           b.value, l.trace)

\* Faulty variant of trigger_sensors: total_sensors_triggered grows by the
\* number of readings published
trigger_sensors_CountsPublished(km, sim, stats, count, ds, os, now) ==
    IF ~km.is_connected
    THEN HandlerResult(sim, stats, HTTPException(503), <<>>, <<>>)
    ELSE LET b == generate_batch(sim, count, ds)
             l == trigger_loop(km, b.self, b.value, os, now, 1,
                               [statistics |-> stats, published_count |-> 0,
                                alerts_generated |-> 0, trace |-> <<>>])
         IN  IF b.raised
             THEN HandlerResult(b.self, stats, HTTPException(500), <<>>, <<>>)
             ELSE HandlerResult(b.self,
                                [l.statistics EXCEPT
                                    !.total_sensors_triggered = @ + l.published_count],
                                TriggerResponse(count, l.published_count, SENSOR_TOPIC),
                                b.value, l.trace)

\* trigger_sensors(count): ds[i] are the random draws of reading i, os[i] is
\* how the transport treats reading i and its alerts, now the clock read by
\* the classifier. publish_message returns for every outcome the transport
\* has, so the except clause is reached only from generate_batch.
trigger_sensors(km, sim, stats, count, ds, os, now) ==
    IF ~km.is_connected
    THEN HandlerResult(sim, stats, HTTPException(503), <<>>, <<>>)
    ELSE LET b == generate_batch(sim, count, ds)
             l == trigger_loop(km, b.self, b.value, os, now, 1,
                               [statistics |-> stats, published_count |-> 0,
                                alerts_generated |-> 0, trace |-> <<>>])
         IN  IF b.raised
             THEN HandlerResult(b.self, stats, HTTPException(500), <<>>, <<>>)
             ELSE HandlerResult(b.self,
                                [l.statistics EXCEPT !.total_sensors_triggered = @ + count],
                                TriggerResponse(count, l.published_count, SENSOR_TOPIC),
                                b.value, l.trace)

\* trigger_single_sensor(sensor_id, temperature, humidity, pressure): both
\* counters grow when the reading is published, then its alerts are published
trigger_single_sensor(km, sim, stats, sensor_id, temperature, humidity, pressure, d, o, now) ==
    IF ~km.is_connected
    THEN HandlerResult(sim, stats, HTTPException(503), <<>>, <<>>)
    ELSE LET g == generate_custom_sensor_data(sim, sensor_id, temperature, humidity,
                                              pressure, <<>>, d)
             r == publish_message(km, SENSOR_TOPIC, g.value, o.reading)
             tr == <<Pub(SENSOR_TOPIC, 1, "", <<>>, r.value)>>
             a == publish_alerts(km, detect_anomalies(g.self, g.value, now), o.alerts,
                                 1, 1, 0, tr)
         IN  IF g.raised
             THEN HandlerResult(g.self, stats, HTTPException(500), <<>>, <<>>)
             ELSE IF Truthy(r.value)
             THEN HandlerResult(g.self,
                                [stats EXCEPT !.total_events_published = @ + 1,
                                              !.total_sensors_triggered = @ + 1],
                                TriggerResponse(1, 1, SENSOR_TOPIC),
                                <<g.value>>, a.trace)
             ELSE HandlerResult(g.self, stats, HTTPException(500), <<g.value>>, tr)

\* The anomaly_params dict of simulate_anomaly, in hundredths
anomaly_params ==
    [high_temperature |-> [temperature |-> 2900, humidity |-> 4500],
     low_temperature |-> [temperature |-> 1600, humidity |-> 7500],
     high_humidity |-> [temperature |-> 2400, humidity |-> 8500],
     low_humidity |-> [temperature |-> 2500, humidity |-> 2500],
     low_battery |-> [temperature |-> 2200, humidity |-> 5500]]

\* simulate_anomaly(anomaly_type, sensor_id): the alerts are published, then
\* both counters grow
simulate_anomaly(km, sim, stats, anomaly_type, sensor_id, d, o, now) ==
    IF ~km.is_connected
    THEN HandlerResult(sim, stats, HTTPException(503), <<>>, <<>>)
    ELSE LET params == anomaly_params[anomaly_type]
             g == generate_custom_sensor_data(
                      sim, sensor_id, params.temperature, params.humidity, <<>>,
                      IF anomaly_type = "low_battery" THEN <<15>> ELSE <<>>, d)
             r == publish_message(km, SENSOR_TOPIC, g.value, o.reading)
             tr == <<Pub(SENSOR_TOPIC, 1, "", <<>>, r.value)>>
             a == publish_alerts(km, detect_anomalies(g.self, g.value, now), o.alerts,
                                 1, 1, 0, tr)
         IN  IF g.raised
             THEN HandlerResult(g.self, stats, HTTPException(500), <<>>, <<>>)
             ELSE IF Truthy(r.value)
             THEN HandlerResult(g.self,
                                [stats EXCEPT !.total_events_published = @ + 1,
                                              !.total_sensors_triggered = @ + 1],
                                TriggerResponse(1, 1, SENSOR_TOPIC),
                                <<g.value>>, a.trace)
             ELSE HandlerResult(g.self, stats, HTTPException(500), <<g.value>>, tr)

\* Faulty variant of reset_statistics: only total_sensors_triggered is
\* cleared
reset_statistics_ClearsOnlySensors(sim, stats) ==
    HandlerResult(sim,
                  [stats EXCEPT !.total_sensors_triggered = 0],
                  [NoResponse EXCEPT !.status_code = 200, !.previous_stats = stats],
                  <<>>, <<>>)

\* Faulty variant of reset_statistics: the previous values are read after
\* the counters are cleared
reset_statistics_ReadsAfterClear(sim, stats) ==
    LET cleared == [stats EXCEPT !.total_events_published = 0,
                                 !.total_sensors_triggered = 0]
    IN  HandlerResult(sim, cleared,
                      [NoResponse EXCEPT !.status_code = 200,
                                         !.previous_stats = cleared],
                      <<>>, <<>>)

\* reset_statistics: the previous values are read, the counters cleared, the
\* previous values answered
reset_statistics(sim, stats) ==
    LET old_events == stats.total_events_published
        old_sensors == stats.total_sensors_triggered
    IN  HandlerResult(sim,
                      [stats EXCEPT !.total_events_published = 0,
                                    !.total_sensors_triggered = 0],
                      [NoResponse EXCEPT
                          !.status_code = 200,
                          !.previous_stats =
                              [total_events_published |-> old_events,
                               total_sensors_triggered |-> old_sensors]],
                      <<>>, <<>>)

----------------------------------------------------------------------------
(* Inputs *)

\* How the two client constructors end in initialize
InitializeOutcomes ==
    [admin : {"ok", "NoBrokersAvailable"}, producer : {"ok", "NoBrokersAvailable"}]

\* How create_topics ends when the broker has nothing against the request
CreateOutcomes == {"ok", "KafkaTimeoutError", "NoBrokersAvailable"}

\* How send and the wait for the acknowledgment end: acknowledged, a
\* serialization error or a client error or any other exception raised by
\* send, a broker error, a timeout or any other exception raised by get
PublishOutcomes ==
    {[send |-> "ok", get |-> g] : g \in {"ok", "KafkaError", "KafkaTimeoutError",
                                          "Exception"}}
    \cup {[send |-> e, get |-> "ok"] : e \in {"TypeError", "KafkaTimeoutError",
                                               "Exception"}}

\* Outcomes used per message of a batch: one per path of publish_message
BatchOutcomes ==
    {[send |-> "ok", get |-> "ok"], [send |-> "TypeError", get |-> "ok"],
     [send |-> "ok", get |-> "KafkaTimeoutError"]}

\* How flush and the two close calls end in close
CloseOutcomes ==
    [flush : {"ok", "KafkaTimeoutError"}, producer_close : {"ok", "Exception"},
     admin_close : {"ok", "Exception"}, released : BOOLEAN]

\* Topic lists handed to ensure_topics_exist
TopicConfigs ==
    {<<TopicConfig(SENSOR_TOPIC), TopicConfig(ALERT_TOPIC)>>,
     <<TopicConfig(SENSOR_TOPIC)>>}

\* Message lists handed to publish_batch: n payloads
Messages(n) == [i \in 1..n |-> [payload |-> i]]

\* Sequences of n per-message outcomes
OutcomeSeqs(n) == [1..n -> BatchOutcomes]

\* KAFKA_BOOTSTRAP_SERVERS and KAFKA_CLIENT_ID defaults
DefaultServers == <<"127.0.0.1:9092">>
DefaultClientId == "iot_producer"

\* Configurations _load_config can produce from the environment
Configs ==
    {[service |-> [port |-> p],
      kafka |-> [bootstrap_servers |-> b, sensor_topic |-> st, alert_topic |-> at,
                 client_id |-> DefaultClientId]] :
        p \in {0, 1, 5001, 65535, 65536},
        b \in {<<"">>, DefaultServers, <<"kafka1:9092", "kafka2:9092">>},
        st \in {"", SENSOR_TOPIC},
        at \in {"", ALERT_TOPIC}}

\* Readings handed to the classifier, around every threshold
Temperatures == {1500, 1799, 1800, 1801, 2200, 2599, 2600, 2999, 3000, 3100, 3500}
Humidities == {2000, 2999, 3000, 3001, 5500, 7999, 8000, 8999, 9000, 9001, 9500}
Pressures == {98000, 100000, 100001, 102499, 102500}
Batteries == {0, 10, 11, 15, 20, 21}
Readings ==
    {SensorData(FormatSensorId(1), t, h, p, b) :
        t \in Temperatures, h \in Humidities, p \in Pressures, b \in Batteries}

\* Random draws of one generate_sensor_data call: the deviations of the
\* normal draws from their means, far outside the ranges, at the bounds and
\* at rounding ties next to them, and the fraction of the uniform draw
TemperatureDraws == {-1000000, -6995, 0, 4000, 12995, 1000000}
HumidityDraws == {-1000000, 0, 25000, 39995, 1000000}
PressureDraws == {-1000000, 0, 26745, 1000000}
BatteryDraws == {0, 8, 500, 1000}
Draws ==
    [temperature : TemperatureDraws, humidity : HumidityDraws,
     pressure : PressureDraws, battery : BatteryDraws, up : BOOLEAN]

\* Draws used per reading of a batch: all at the mean, all far below, all
\* far above
BatchDraws ==
    {[temperature |-> x, humidity |-> x, pressure |-> x, battery |-> 500,
      up |-> TRUE] : x \in {-1000000, 0, 1000000}}

\* Values handed to generate_custom_sensor_data: inside the field
\* constraints, at their bounds and outside
CustomTemperatures == {1499, 1500, 2250, 3500, 3501, 4500}
CustomHumidities == {1999, 2000, 5500, 9500, 9501}
CustomPressures == {<<>>, <<101325>>, <<110000>>}
CustomBatteries == {<<>>, <<15>>}

\* Clock seconds read by the four checks of one detect_anomalies call
Dimensions == <<"temperature", "humidity", "pressure", "battery">>
Clocks ==
    {now \in [temperature : 0..MaxClock, humidity : 0..MaxClock,
              pressure : 0..MaxClock, battery : 0..MaxClock] :
        now.temperature <= now.humidity /\ now.humidity <= now.pressure
        /\ now.pressure <= now.battery}

\* How the transport treats one publish of a handler: acknowledged, or the
\* acknowledgment times out
Ack == [send |-> "ok", get |-> "ok"]
TimedOut == [send |-> "ok", get |-> "KafkaTimeoutError"]

\* How the transport treats one reading of a trigger and its alerts: the
\* first alert one way, the others the same or the other way
TriggerOutcomes ==
    [reading : {Ack, TimedOut},
     alerts : {<<a, b, b, b>> : a \in {Ack, TimedOut}, b \in {Ack, TimedOut}}]

\* Draws used per reading of a trigger: all at the mean (no alert), or the
\* temperature far above (35.0, critical, and with it the humidity 29.0, low)
TriggerDraws ==
    {[temperature |-> x, humidity |-> 0, pressure |-> 0, battery |-> 500,
      up |-> TRUE] : x \in {0, 1000000}}

\* Draws of the pressure and the battery of a custom reading
CustomDraws ==
    {[temperature |-> 0, humidity |-> 0, pressure |-> x, battery |-> 500,
      up |-> TRUE] : x \in {0, 1000000}}

\* Query parameters of trigger_single_sensor that pass the validation of
\* the route (temperature 15..35, humidity 20..95, pressure 980..1040)
QueryTemperatures == {1500, 2250, 3000, 3500}
QueryHumidities == {2000, 5500, 9500}
QueryPressures == {<<>>, <<98000>>, <<101325>>}

\* Values of the anomaly_type parameter its regex admits
AnomalyTypes == {"high_temperature", "low_temperature", "high_humidity",
                 "low_humidity", "low_battery"}

\* The clock, constant while one request is handled
HandlerClocks == {now \in Clocks : now.temperature = now.battery}

----------------------------------------------------------------------------
(* State *)

NoCall == [op |-> "none", args |-> <<>>, value |-> PyNone, count |-> 0, raised |-> FALSE]

Call(op, args, r) ==
    [op |-> op, args |-> args, value |-> r.value, count |-> r.count, raised |-> r.raised]

\* Idle values of the parts a specification does not drive
IdleCoord ==
    /\ kafka_manager = PyNone
    /\ broker_topics = {}
    /\ ret = NoCall
    /\ trace = <<>>
    /\ ever_connected = FALSE
IdleApp ==
    /\ app = AppStart
    /\ config = [service |-> [port |-> 5001],
                 kafka |-> [bootstrap_servers |-> DefaultServers,
                            sensor_topic |-> SENSOR_TOPIC, alert_topic |-> ALERT_TOPIC,
                            client_id |-> DefaultClientId]]
    /\ statistics = InitialStatistics
    /\ response = NoResponse
IdleSim ==
    /\ sensor_simulator = SensorSimulator
    /\ reading = SensorData(FormatSensorId(1), 2200, 5500, 101325, 85)
    /\ alerts = <<>>
    /\ batch = <<>>

----------------------------------------------------------------------------
(* Spec: the KafkaManager object and its callers *)

\* A coordinator as its callers hold it: freshly constructed, or connected.
\* The methods that test is_connected are written for the object the try
\* block of initialize builds (both handles open, flag set); initialize as
\* written always ends in its except clause, which clears the flag, so no
\* call sequence from a fresh object sets it and the connected object is
\* given as an initial state.
Init ==
    /\ kafka_manager \in {KafkaManager(DefaultServers, DefaultClientId),
                          Connected(KafkaManager(DefaultServers, DefaultClientId))}
    /\ broker_topics \in SUBSET {SENSOR_TOPIC, ALERT_TOPIC}
    /\ ret = NoCall
    /\ trace = <<>>
    /\ ever_connected = kafka_manager.is_connected
    /\ IdleApp
    /\ IdleSim

Returned(op, args, r) ==
    /\ kafka_manager' = r.self
    /\ ret' = Call(op, args, r)
    /\ trace' = r.trace
    /\ ever_connected' = (ever_connected \/ r.self.is_connected)

Initialize ==
    /\ \E o \in InitializeOutcomes :
          Returned("initialize", <<>>, initialize(kafka_manager, o))
    /\ UNCHANGED <<broker_topics, appVars, simVars>>

EnsureTopicsExist ==
    /\ \E topics_config \in TopicConfigs, o \in CreateOutcomes :
          LET e == ensure_topics_exist(kafka_manager, topics_config, broker_topics, o)
          IN  /\ Returned("ensure_topics_exist", topics_config, e.res)
              /\ broker_topics' = e.broker
    /\ UNCHANGED <<appVars, simVars>>

PublishMessage ==
    /\ \E topic \in {SENSOR_TOPIC, ALERT_TOPIC}, o \in PublishOutcomes :
          Returned("publish_message", <<topic>>,
                   publish_message(kafka_manager, topic, [payload |-> 1], o))
    /\ UNCHANGED <<broker_topics, appVars, simVars>>

PublishBatch ==
    /\ \E n \in 0..MaxBatch :
       \E os \in OutcomeSeqs(n), flush \in {"ok", "KafkaTimeoutError"} :
          Returned("publish_batch", <<SENSOR_TOPIC, n, os>>,
                   publish_batch(kafka_manager, SENSOR_TOPIC, Messages(n), os, flush))
    /\ UNCHANGED <<broker_topics, appVars, simVars>>

Close ==
    /\ \E o \in CloseOutcomes :
          Returned("close", <<>>, close(kafka_manager, o))
    /\ UNCHANGED <<broker_topics, appVars, simVars>>

Next ==
    \/ Initialize
    \/ EnsureTopicsExist
    \/ PublishMessage
    \/ PublishBatch
    \/ Close

Spec == Init /\ [][Next]_vars

----------------------------------------------------------------------------
(* SpecApp: the process from its start *)

InitApp ==
    /\ IdleCoord
    /\ app = AppStart
    /\ config \in Configs
    /\ statistics = InitialStatistics
    /\ response = NoResponse
    /\ IdleSim

LifespanStartup ==
    /\ app.pc = "start"
    /\ \E o \in [initialize : InitializeOutcomes, create : CreateOutcomes] :
          LET l == lifespan(app, config, broker_topics, o)
          IN  /\ app' = l.app
              /\ kafka_manager' = l.kafka_manager
              /\ broker_topics' = l.broker
              /\ ret' = [NoCall EXCEPT !.op = "lifespan", !.value = l.value]
              /\ trace' = l.trace
    /\ UNCHANGED <<ever_connected, config, statistics, response, simVars>>

HttpRequest ==
    /\ app.requests_refused + app.requests_handled < MaxRequests
    /\ app' = dispatch(app)
    /\ UNCHANGED <<coordVars, config, statistics, response, simVars>>

NextApp ==
    \/ LifespanStartup
    \/ HttpRequest

SpecApp == InitApp /\ [][NextApp]_vars

----------------------------------------------------------------------------
(* SpecSim: the classifier on readings drawn from bounded sets *)

InitSim ==
    /\ IdleCoord
    /\ IdleApp
    /\ sensor_simulator \in {[event_counter |-> n] : n \in 0..MaxEvents}
    /\ reading \in Readings
    /\ alerts = <<>>
    /\ batch = <<>>

DetectAnomalies ==
    /\ ret.op = "none"
    /\ \E now \in Clocks :
          alerts' = detect_anomalies(sensor_simulator, reading, now)
    /\ ret' = [NoCall EXCEPT !.op = "detect_anomalies"]
    /\ UNCHANGED <<kafka_manager, broker_topics, trace, ever_connected, appVars,
                   sensor_simulator, reading, batch>>

NextSim == DetectAnomalies

SpecSim == InitSim /\ [][NextSim]_vars

----------------------------------------------------------------------------
(* SpecGen: the generator of the simulator *)

InitGen ==
    /\ IdleCoord
    /\ IdleApp
    /\ IdleSim

\* The caller has taken the result of the last call
Consumed ==
    /\ ret.op # "none"
    /\ ret' = NoCall
    /\ trace' = <<>>
    /\ reading' = SensorData(FormatSensorId(1), 2200, 5500, 101325, 85)
    /\ alerts' = <<>>
    /\ batch' = <<>>
    /\ response' = NoResponse
    /\ UNCHANGED <<kafka_manager, broker_topics, ever_connected, app, config,
                   statistics, sensor_simulator>>

GenerateSensorData ==
    /\ ret.op = "none"
    /\ sensor_simulator.event_counter < MaxTotal
    /\ \E i \in 1..MaxCount, d \in Draws :
          LET r == generate_sensor_data(sensor_simulator, FormatSensorId(i), d)
          IN  /\ sensor_simulator' = r.self
              /\ reading' = r.value
              /\ ret' = [NoCall EXCEPT !.op = "generate_sensor_data",
                                       !.args = [sensor_id |-> FormatSensorId(i)],
                                       !.raised = r.raised]
    /\ UNCHANGED <<kafka_manager, broker_topics, trace, ever_connected, appVars,
                   alerts, batch>>

GenerateCustomSensorData ==
    /\ ret.op = "none"
    /\ \E temperature \in CustomTemperatures, humidity \in CustomHumidities,
          pressure \in CustomPressures, battery_level \in CustomBatteries,
          d \in {x \in Draws : x.temperature = 0 /\ x.humidity = 0} :
          LET r == generate_custom_sensor_data(
                       sensor_simulator, [prefix |-> "sensor_custom", digits |-> <<>>],
                       temperature, humidity, pressure, battery_level, d)
          IN  /\ sensor_simulator' = r.self
              /\ reading' = r.value
              /\ ret' = [NoCall EXCEPT !.op = "generate_custom_sensor_data",
                                       !.args = [temperature |-> temperature,
                                                 humidity |-> humidity,
                                                 pressure |-> pressure,
                                                 battery_level |-> battery_level],
                                       !.raised = r.raised]
    /\ UNCHANGED <<kafka_manager, broker_topics, trace, ever_connected, appVars,
                   alerts, batch>>

GenerateBatch ==
    /\ ret.op = "none"
    /\ \E count \in 0..MaxCount :
          /\ sensor_simulator.event_counter + count <= MaxTotal
          /\ \E ds \in [1..count -> BatchDraws] :
                LET r == generate_batch(sensor_simulator, count, ds)
                IN  /\ sensor_simulator' = r.self
                    /\ batch' = r.value
                    /\ ret' = [NoCall EXCEPT !.op = "generate_batch",
                                             !.args = [count |-> count],
                                             !.raised = r.raised]
    /\ UNCHANGED <<kafka_manager, broker_topics, trace, ever_connected, appVars,
                   reading, alerts>>

NextGen ==
    \/ GenerateSensorData
    \/ GenerateCustomSensorData
    \/ GenerateBatch
    \/ Consumed

SpecGen == InitGen /\ [][NextGen]_vars

----------------------------------------------------------------------------
(* SpecApi: the request handlers *)

\* The handlers are reached once lifespan has set up the routers; they hold
\* the coordinator fresh (flag false) or connected, as in Init
InitApi ==
    /\ kafka_manager \in {KafkaManager(DefaultServers, DefaultClientId),
                          Connected(KafkaManager(DefaultServers, DefaultClientId))}
    /\ broker_topics = {SENSOR_TOPIC, ALERT_TOPIC}
    /\ ret = NoCall
    /\ trace = <<>>
    /\ ever_connected = kafka_manager.is_connected
    /\ IdleApp
    /\ IdleSim

\* A handler ends: its answer, what it left behind, what it did
Handled(op, args, h) ==
    /\ sensor_simulator' = h.sensor_simulator
    /\ statistics' = h.statistics
    /\ response' = h.response
    /\ batch' = h.batch
    /\ trace' = h.trace
    /\ ret' = [NoCall EXCEPT !.op = op, !.args = args]
    /\ UNCHANGED <<kafka_manager, broker_topics, ever_connected, app, config,
                   reading, alerts>>

TriggerSensors ==
    /\ ret.op = "none"
    /\ \E count \in 1..MaxCount :
          /\ sensor_simulator.event_counter + count <= MaxTotal
          /\ statistics.total_sensors_triggered + count <= MaxTotal
          /\ \E ds \in [1..count -> TriggerDraws], os \in [1..count -> TriggerOutcomes],
                now \in HandlerClocks :
                Handled("trigger_sensors", [count |-> count],
                        trigger_sensors(kafka_manager, sensor_simulator, statistics,
                                        count, ds, os, now))

TriggerSingleSensor ==
    /\ ret.op = "none"
    /\ statistics.total_sensors_triggered < MaxTotal
    /\ \E temperature \in QueryTemperatures, humidity \in QueryHumidities,
          pressure \in QueryPressures, d \in CustomDraws, o \in TriggerOutcomes,
          now \in HandlerClocks :
          Handled("trigger_single_sensor", [count |-> 1],
                  trigger_single_sensor(kafka_manager, sensor_simulator, statistics,
                                        [prefix |-> "sensor_custom", digits |-> <<>>],
                                        temperature, humidity, pressure, d, o, now))

SimulateAnomaly ==
    /\ ret.op = "none"
    /\ statistics.total_sensors_triggered < MaxTotal
    /\ \E anomaly_type \in AnomalyTypes, d \in CustomDraws, o \in TriggerOutcomes,
          now \in HandlerClocks :
          Handled("simulate_anomaly", [count |-> 1],
                  simulate_anomaly(kafka_manager, sensor_simulator, statistics,
                                   anomaly_type,
                                   [prefix |-> "sensor_anomaly_test", digits |-> <<>>],
                                   d, o, now))

ResetStatistics ==
    /\ ret.op = "none"
    /\ Handled("reset_statistics", [count |-> 0],
               reset_statistics(sensor_simulator, statistics))

NextApi ==
    \/ TriggerSensors
    \/ TriggerSingleSensor
    \/ SimulateAnomaly
    \/ ResetStatistics
    \/ Consumed

SpecApi == InitApi /\ [][NextApi]_vars

----------------------------------------------------------------------------
(* Properties *)

\* Number of entries of the trace that are calls of c
Calls(c) == Cardinality({i \in DOMAIN trace : trace[i].call = c})

\* Entries of the trace that are calls of the client library
TransportCalls == {"KafkaAdminClient", "KafkaProducer", "admin_client.create_topics",
                   "producer.send", "future.get", "producer.flush",
                   "producer.close", "admin_client.close"}

\* Some call of the trace raised
SomeCallRaised ==
    \E i \in DOMAIN trace :
        trace[i].call \in TransportCalls \cup {"self._ensure_topics_exist"}
        /\ trace[i].result # "ok"

\* The call acknowledged by the broker: the wait on the future returned
Acknowledged == trace # <<>> /\ trace[Len(trace)] = Ev("future.get", "ok")

\* C1: publish_message never raises. In every coordinator state and for
\* every outcome of send and of the wait for the acknowledgment it returns
\* True or False, and True only when the broker acknowledged.
C1_PublishNeverRaises ==
    ret.op = "publish_message" =>
        /\ ~ret.raised
        /\ ret.value \in {PyTrue, PyFalse}
        /\ (ret.value = PyTrue <=> Acknowledged)

\* C1 witness: a connected coordinator whose send raised a serialization
\* error, and the call returned False
C1_Witness ==
    /\ ret.op = "publish_message"
    /\ kafka_manager.is_connected
    /\ trace = <<Ev("producer.send", "TypeError")>>
    /\ ret.value = PyFalse

\* C2: when both client constructors succeed, initialize returns success and
\* leaves the coordinator connected with both handles present.
C2_InitializeReportsSuccess ==
    (/\ ret.op = "initialize"
     /\ Len(trace) >= 2
     /\ trace[1] = Ev("KafkaAdminClient", "ok")
     /\ trace[2] = Ev("KafkaProducer", "ok"))
    => /\ ret.value = PyTrue
       /\ kafka_manager.is_connected
       /\ Present(kafka_manager.producer)
       /\ Present(kafka_manager.admin_client)

\* C3: when a step of initialize fails, the call does not raise, returns
\* False, leaves is_connected false, and opens each client at most once (no
\* retry).
C3_InitializeFailure ==
    (ret.op = "initialize" /\ SomeCallRaised) =>
        /\ ~ret.raised
        /\ ret.value = PyFalse
        /\ ~kafka_manager.is_connected
        /\ Calls("KafkaAdminClient") <= 1
        /\ Calls("KafkaProducer") <= 1

\* C3 witness: the producer constructor raised after the admin client opened
C3_Witness ==
    /\ ret.op = "initialize"
    /\ Len(trace) >= 2
    /\ trace[2] = Ev("KafkaProducer", "NoBrokersAvailable")
    /\ ret.value = PyFalse
    /\ kafka_manager.admin_client = "open"

\* C4: routers are registered and requests handled only after initialize
\* returned success; when initialize reports failure the process exits
\* during start-up after that single call, and no request is ever handled.
C4_StartupGating ==
    /\ app.routers => (app.initialize_calls = 1 /\ Truthy(app.initialize_value))
    /\ app.requests_handled > 0 => (app.routers /\ Truthy(app.initialize_value))
    /\ (app.initialize_calls > 0 /\ ~Truthy(app.initialize_value)) =>
          /\ app.pc = "exited"
          /\ app.exit_code = 1
          /\ app.initialize_calls = 1
          /\ ~app.routers
          /\ app.requests_handled = 0

\* C4 witness: initialize reported failure, the process exited, and a request
\* sent to it was not handled
C4_Witness ==
    /\ app.pc = "exited"
    /\ app.initialize_calls = 1
    /\ app.initialize_value = PyFalse
    /\ app.requests_refused > 0
    /\ app.requests_handled = 0

\* Position in the trace of the one call of c (0 when there is none)
Position(c) ==
    IF \E i \in DOMAIN trace : trace[i].call = c
    THEN CHOOSE i \in DOMAIN trace : trace[i].call = c
    ELSE 0

\* C5: close flushes the producer, releases the producer, releases the admin
\* client and then clears the flag, in this order; after close returns the
\* flag is false whatever the client calls did.
C5_CloseOrderAndFlag ==
    ret.op = "close" =>
        /\ ~ret.raised
        /\ ~kafka_manager.is_connected
        /\ Position("is_connected=False") = Len(trace)
        /\ Present(kafka_manager.producer) =>
              /\ Position("producer.flush") = 1
              /\ Position("producer.close") = 2
        /\ Present(kafka_manager.admin_client) =>
              Position("admin_client.close") = Len(trace) - 1

\* C6: close on a coordinator that was never connected does not raise,
\* makes no call on an absent handle, and leaves is_connected false.
C6_CloseSafeWhenNeverConnected ==
    (ret.op = "close" /\ ~ever_connected) =>
        /\ ~ret.raised
        /\ ~kafka_manager.is_connected
        /\ ~Present(kafka_manager.producer) =>
              (Calls("producer.flush") = 0 /\ Calls("producer.close") = 0)
        /\ ~Present(kafka_manager.admin_client) => Calls("admin_client.close") = 0

\* C6 witness: close on a coordinator on which initialize was never called
C6_Witness ==
    /\ ret.op = "close"
    /\ ~ever_connected
    /\ kafka_manager.producer = "None"
    /\ kafka_manager.admin_client = "None"
    /\ trace = <<Ev("is_connected=False", "ok")>>

\* The publish attempts of the trace, in order
PublishAttempts == SelectSeq(trace, LAMBDA e : e.call = "publish_message")

\* Number of publish attempts on which the transport failed
TransportFailures ==
    Cardinality({i \in DOMAIN trace :
                    trace[i].call \in {"producer.send", "future.get"}
                    /\ trace[i].result # "ok"})

C8_IdempotentProvisioning ==
    [][(/\ ret.op = "ensure_topics_exist"
        /\ ret.value = PyTrue
        /\ ret'.op = "ensure_topics_exist"
        /\ ret'.args = ret.args
        /\ kafka_manager'.admin_client = "open"
        /\ trace' = <<Ev("admin_client.create_topics", "TopicAlreadyExistsError")>>)
       => ret'.value = PyTrue]_vars

\* The dimensions an alert can be about
AlertTypes == {"temperature", "humidity", "pressure", "battery"}

\* The alerts of the classified reading about dimension d
AlertsOf(d) == SelectSeq(alerts, LAMBDA a : a.alert_type = d)

\* C9: detect_anomalies yields at most one alert per dimension, so at most
\* four alerts.
C9_AtMostOneAlertPerDimension ==
    ret.op = "detect_anomalies" =>
        /\ \A i \in DOMAIN alerts : alerts[i].alert_type \in AlertTypes
        /\ \A d \in AlertTypes : Len(AlertsOf(d)) <= 1
        /\ Len(alerts) <= 4

\* C9 witness: a reading out of bounds on all four dimensions, four alerts
C9_Witness ==
    /\ ret.op = "detect_anomalies"
    /\ Len(alerts) = 4
    /\ reading.temperature >= 3000

\* Severities of the alerts about dimension d
Severities(d) == {AlertsOf(d)[i].severity : i \in DOMAIN AlertsOf(d)}

\* The ladder as the claim states it, for dimension d with value v
LadderHolds(d, v, low, high, critical) ==
    /\ Severities(d) \subseteq {"critical", "high", "low"}
    /\ ("critical" \in Severities(d)) <=> (v >= critical)
    /\ ("high" \in Severities(d)) <=> (high <= v /\ v < critical)
    /\ ("low" \in Severities(d)) <=> (v <= low)
    /\ (Severities(d) = {}) <=> (low < v /\ v < high)
    /\ (v >= critical) =>
          (Len(AlertsOf(d)) = 1 /\ AlertsOf(d)[1].severity = "critical")

\* C10: temperature (bounds 18/26/30) and humidity (bounds 30/80/90): the
\* alert is critical iff v >= critical, high iff high <= v < critical, low
\* iff v <= low, absent iff low < v < high; a value at or above the critical
\* bound yields exactly one alert, critical and not high.
C10_LadderFirstMatch ==
    ret.op = "detect_anomalies" =>
        /\ LadderHolds("temperature", reading.temperature, 1800, 2600, 3000)
        /\ LadderHolds("humidity", reading.humidity, 3000, 8000, 9000)

\* C10 witness: temperature exactly at the critical bound, one critical alert
C10_Witness ==
    /\ ret.op = "detect_anomalies"
    /\ reading.temperature = 3000
    /\ Len(AlertsOf("temperature")) = 1
    /\ AlertsOf("temperature")[1].severity = "critical"

\* C11: battery (bounds low 0.2, critical 0.1): the alert is critical iff
\* b <= 0.1, medium iff 0.1 < b <= 0.2, absent iff b > 0.2; b = 0.15 yields
\* exactly one battery alert, of severity medium, against the threshold 0.2.
C11_BatteryLadder ==
    ret.op = "detect_anomalies" =>
        LET b == reading.battery_level
        IN  /\ Severities("battery") \subseteq {"critical", "medium"}
            /\ Len(AlertsOf("battery")) <= 1
            /\ ("critical" \in Severities("battery")) <=> (b <= 10)
            /\ ("medium" \in Severities("battery")) <=> (10 < b /\ b <= 20)
            /\ (AlertsOf("battery") = <<>>) <=> (b > 20)
            /\ (b = 15) =>
                  /\ Len(AlertsOf("battery")) = 1
                  /\ AlertsOf("battery")[1].severity = "medium"
                  /\ AlertsOf("battery")[1].threshold = 20
                  /\ AlertsOf("battery")[1].value = 15

\* C11 witness: battery 0.15 classified, one medium alert against 0.2
C11_Witness ==
    /\ ret.op = "detect_anomalies"
    /\ reading.battery_level = 15
    /\ Len(AlertsOf("battery")) = 1
    /\ AlertsOf("battery")[1].severity = "medium"
    /\ AlertsOf("battery")[1].threshold = 20

\* The reading is inside the four ranges of normal_ranges
InRanges(r) ==
    /\ 1500 <= r.temperature /\ r.temperature <= 3500
    /\ 2000 <= r.humidity /\ r.humidity <= 9500
    /\ 98000 <= r.pressure /\ r.pressure <= 104000
    /\ 0 <= r.battery_level /\ r.battery_level <= 100

\* C12: every reading generate_sensor_data or generate_batch returns, for
\* any random draws, has temperature in [15,35], humidity in [20,95],
\* pressure in [980,1040] and battery in [0,1]: clamping then rounding to two
\* decimals never leaves the ranges (and the call returns a reading).
C12_RangeInvariant ==
    /\ ret.op = "generate_sensor_data" => (~ret.raised /\ InRanges(reading))
    /\ ret.op = "generate_batch" =>
          (~ret.raised /\ \A i \in DOMAIN batch : InRanges(batch[i]))

\* C12 witness: draws far above every range, the reading sits on the upper
\* bounds of temperature and pressure and on the lower bound of humidity
C12_Witness ==
    /\ ret.op = "generate_sensor_data"
    /\ reading.temperature = 3500
    /\ reading.pressure = 104000
    /\ reading.humidity = 2000

\* C18: generate_custom_sensor_data accepts any temperature and humidity,
\* also outside [15,35] and [20,95]: it does not fail and the reading it
\* returns carries the supplied temperature and humidity.
C18_CustomAcceptsAnyValue ==
    ret.op = "generate_custom_sensor_data" =>
        /\ ~ret.raised
        /\ reading.temperature = ret.args.temperature
        /\ reading.humidity = ret.args.humidity

\* C19: generate_batch(count) returns exactly count readings whose
\* identifiers are sensor_001, sensor_002, ... in order, pairwise distinct,
\* the same from whatever state the simulator is in (so in every later
\* batch), and the event counter grows by exactly count.
C19_BatchIdentifiers ==
    [][ret'.op = "generate_batch" =>
         LET count == ret'.args.count
         IN  /\ ~ret'.raised
             /\ Len(batch') = count
             /\ \A i \in 1..count :
                   /\ batch'[i].sensor_id.prefix = "sensor_"
                   /\ batch'[i].sensor_id.digits = <<i \div 100, (i \div 10) % 10, i % 10>>
             /\ \A i, j \in 1..count :
                   i # j => batch'[i].sensor_id # batch'[j].sensor_id
             /\ sensor_simulator'.event_counter = sensor_simulator.event_counter + count]_vars

\* C19 witness: a second batch, from a simulator that has generated before,
\* starting again at sensor_001
C19_Witness ==
    /\ ret.op = "generate_batch"
    /\ Len(batch) = 2
    /\ sensor_simulator.event_counter > 2
    /\ batch[1].sensor_id.digits = <<0, 0, 1>>
    /\ batch[2].sensor_id.digits = <<0, 0, 2>>

\* The handlers that trigger readings
TriggerHandlers == {"trigger_sensors", "trigger_single_sensor", "simulate_anomaly"}

\* The publish calls of the trace about readings (not alerts) that returned True
PublishedReadings ==
    {k \in DOMAIN trace : trace[k].topic = SENSOR_TOPIC /\ trace[k].result = PyTrue}

\* The dimensions on which a reading is out of the bounds of section 4.2
OutOfBounds(r) ==
    {d \in AlertTypes :
        \/ d = "temperature" /\ (r.temperature >= 2600 \/ r.temperature <= 1800)
        \/ d = "humidity" /\ (r.humidity >= 8000 \/ r.humidity <= 3000)
        \/ d = "pressure" /\ (r.pressure >= 102500 \/ r.pressure <= 100000)
        \/ d = "battery" /\ r.battery_level <= 20}

\* C13: a trigger request (N generated readings, one custom reading, an
\* anomaly scenario) that finds the connected flag false is answered
\* service-unavailable and nothing else happens: no reading is generated
\* (event counter unchanged), no publish is attempted, both cumulative
\* counters keep their values.
C13_FailFastWhenNotConnected ==
    [][(ret'.op \in TriggerHandlers /\ ~kafka_manager.is_connected) =>
          /\ response'.status_code = 503
          /\ sensor_simulator' = sensor_simulator
          /\ batch' = <<>>
          /\ trace' = <<>>
          /\ statistics' = statistics
          /\ kafka_manager' = kafka_manager]_vars

\* C13 witness: a trigger of two readings refused by a coordinator whose
\* flag is false
C13_Witness ==
    /\ ret.op = "trigger_sensors"
    /\ ret.args.count = 2
    /\ ~kafka_manager.is_connected
    /\ response.status_code = 503

\* C14: inside a trigger the alerts of a reading are published only if the
\* publish of that reading succeeded, and after it; a reading whose publish
\* failed gets no alert publish; everything about reading i comes before
\* anything about reading i+1; and when the request returns every alert of
\* every published reading has been attempted and has its result.
C14_PublicationOrderAndGating ==
    (ret.op \in TriggerHandlers /\ response.status_code # 503) =>
        /\ \A k \in DOMAIN trace :
              /\ trace[k].result \in {PyTrue, PyFalse}
              /\ trace[k].topic = ALERT_TOPIC =>
                    \E j \in 1..(k - 1) :
                        /\ trace[j].topic = SENSOR_TOPIC
                        /\ trace[j].arg = trace[k].arg
                        /\ trace[j].result = PyTrue
              /\ \A l \in DOMAIN trace : k < l => trace[k].arg <= trace[l].arg
        /\ \A i \in DOMAIN batch :
              /\ Cardinality({k \in DOMAIN trace :
                                 trace[k].topic = SENSOR_TOPIC /\ trace[k].arg = i}) = 1
              /\ (\E k \in PublishedReadings : trace[k].arg = i) =>
                    /\ {trace[k].alert_type :
                           k \in {n \in DOMAIN trace : trace[n].topic = ALERT_TOPIC
                                                       /\ trace[n].arg = i}}
                          = OutOfBounds(batch[i])
                    /\ Cardinality({k \in DOMAIN trace :
                                       trace[k].topic = ALERT_TOPIC /\ trace[k].arg = i})
                          = Cardinality(OutOfBounds(batch[i]))

\* C14 witness: reading 1 published, its two alerts attempted (the first
\* fails), then reading 2, whose publish fails and which gets no alert
C14_Witness ==
    /\ ret.op = "trigger_sensors"
    /\ Len(trace) = 4
    /\ trace[1].topic = SENSOR_TOPIC /\ trace[1].result = PyTrue
    /\ trace[2].topic = ALERT_TOPIC /\ trace[2].result = PyFalse
    /\ trace[3].topic = ALERT_TOPIC /\ trace[3].result = PyTrue
    /\ trace[4].topic = SENSOR_TOPIC /\ trace[4].arg = 2 /\ trace[4].result = PyFalse
    /\ OutOfBounds(batch[2]) # {}

\* C15: a trigger of count readings handled while connected adds exactly
\* count to total_sensors_triggered, however many publishes succeed, and
\* adds to total_events_published exactly the number of reading publishes
\* that succeeded.
C15_CumulativeCounters ==
    [][(ret'.op = "trigger_sensors" /\ kafka_manager.is_connected) =>
          /\ statistics'.total_sensors_triggered
                = statistics.total_sensors_triggered + ret'.args.count
          /\ statistics'.total_events_published
                = statistics.total_events_published
                  + Cardinality({k \in DOMAIN trace' :
                                    /\ trace'[k].topic = SENSOR_TOPIC
                                    /\ trace'[k].result = PyTrue})]_vars

\* C15 witness: two readings triggered, one published: the counters diverge
C15_Witness ==
    /\ ret.op = "trigger_sensors"
    /\ ret.args.count = 2
    /\ Cardinality(PublishedReadings) = 1
    /\ statistics.total_sensors_triggered = 2
    /\ statistics.total_events_published = 1

\* C16: the summary of a trigger of count readings reports
\* sensors_triggered = count and events_published = the number of reading
\* publishes that succeeded, between 0 and count; alert publishes are
\* counted neither in events_published nor in total_events_published.
C16_SummaryCounts ==
    [][(ret'.op = "trigger_sensors" /\ kafka_manager.is_connected) =>
          LET succeeded == Cardinality({k \in DOMAIN trace' :
                                           /\ trace'[k].topic = SENSOR_TOPIC
                                           /\ trace'[k].result = PyTrue})
          IN  /\ response'.status_code = 200
              /\ response'.sensors_triggered = ret'.args.count
              /\ response'.events_published = succeeded
              /\ 0 <= response'.events_published
              /\ response'.events_published <= ret'.args.count
              /\ response'.topic = SENSOR_TOPIC
              /\ statistics'.total_events_published - statistics.total_events_published
                    = response'.events_published]_vars

\* C16 witness: one reading published together with an alert of it, one
\* event reported
C16_Witness ==
    /\ ret.op = "trigger_sensors"
    /\ response.events_published = 1
    /\ response.sensors_triggered = 2
    /\ \E k \in DOMAIN trace : trace[k].topic = ALERT_TOPIC /\ trace[k].result = PyTrue

\* C17: after reset_statistics both cumulative counters read 0, and the
\* answer reports the values they had before the reset.
C17_ResetStatistics ==
    [][ret'.op = "reset_statistics" =>
          /\ statistics'.total_events_published = 0
          /\ statistics'.total_sensors_triggered = 0
          /\ response'.status_code = 200
          /\ response'.previous_stats.total_events_published
                = statistics.total_events_published
          /\ response'.previous_stats.total_sensors_triggered
                = statistics.total_sensors_triggered]_vars

\* C17 witness: a reset of counters that had diverged
C17_Witness ==
    /\ ret.op = "reset_statistics"
    /\ response.previous_stats.total_sensors_triggered = 2
    /\ response.previous_stats.total_events_published = 1
    /\ statistics = InitialStatistics

\* C20: publish_message and publish_batch, succeeding or failing, leave the
\* connection state as it was: the connected flag, the endpoint list, the
\* client id and the presence of both handles.
C20_PublishKeepsConnectionState ==
    [][ret'.op \in {"publish_message", "publish_batch"} =>
          /\ kafka_manager'.is_connected = kafka_manager.is_connected
          /\ kafka_manager'.bootstrap_servers = kafka_manager.bootstrap_servers
          /\ kafka_manager'.client_id = kafka_manager.client_id
          /\ Present(kafka_manager'.producer) = Present(kafka_manager.producer)
          /\ Present(kafka_manager'.admin_client) = Present(kafka_manager.admin_client)]_vars

\* C20 witness: a publish that failed at the transport, the coordinator
\* still connected with both handles
C20_Witness ==
    /\ ret.op = "publish_message"
    /\ ret.value = PyFalse
    /\ SomeCallRaised
    /\ kafka_manager.is_connected
    /\ Present(kafka_manager.producer)
    /\ Present(kafka_manager.admin_client)

\* The publish calls of the trace about reading i on the given topic
PublishesOf(topic, i) ==
    {k \in DOMAIN trace : trace[k].topic = topic /\ trace[k].arg = i}

\* C21: failures neither stop nor roll back a trigger of count generated
\* readings: exactly count reading publishes are attempted whatever the
\* earlier outcomes; a failed alert publish takes nothing back from the
\* published-readings count and does not keep the other alerts of the same
\* reading from being attempted.
C21_FailuresDoNotStopTrigger ==
    (ret.op = "trigger_sensors" /\ response.status_code # 503) =>
        /\ response.status_code = 200
        /\ Len(batch) = ret.args.count
        /\ \A i \in 1..ret.args.count : Cardinality(PublishesOf(SENSOR_TOPIC, i)) = 1
        /\ Cardinality({k \in DOMAIN trace : trace[k].topic = SENSOR_TOPIC})
              = ret.args.count
        /\ response.events_published = Cardinality(PublishedReadings)
        /\ \A k \in PublishedReadings :
              Cardinality(PublishesOf(ALERT_TOPIC, trace[k].arg))
                 = Cardinality(OutOfBounds(batch[trace[k].arg]))

\* C21 witness: the first reading fails, the second is published, its first
\* alert fails and its second alert is attempted all the same
C21_Witness ==
    /\ ret.op = "trigger_sensors"
    /\ Len(trace) = 4
    /\ trace[1].topic = SENSOR_TOPIC /\ trace[1].result = PyFalse
    /\ trace[2].topic = SENSOR_TOPIC /\ trace[2].arg = 2 /\ trace[2].result = PyTrue
    /\ trace[3].topic = ALERT_TOPIC /\ trace[3].result = PyFalse
    /\ trace[4].topic = ALERT_TOPIC /\ trace[4].result = PyTrue
    /\ response.events_published = 1

\* C22: a trigger of one custom reading handled while connected adds 1 to
\* total_sensors_triggered whether or not the publish of the reading
\* succeeds, as a trigger of generated readings does; only
\* total_events_published depends on the publish.
C22_CustomTriggerCountsSensor ==
    [][(ret'.op \in {"trigger_single_sensor", "simulate_anomaly"}
        /\ kafka_manager.is_connected) =>
          /\ statistics'.total_sensors_triggered
                = statistics.total_sensors_triggered + 1
          /\ statistics'.total_events_published
                = statistics.total_events_published
                  + Cardinality({k \in DOMAIN trace' :
                                    /\ trace'[k].topic = SENSOR_TOPIC
                                    /\ trace'[k].result = PyTrue})]_vars

\* C23: close and a publish that is under way: close does not release the
\* producer while a publish is between its test of the flag and its
\* acknowledgment; equivalently, no publish sends on, or waits on, a
\* producer that close has released.
C23_NoPublishOnReleasedProducer ==
    (ret.op \in {"publish_message", "publish_batch"}
     /\ kafka_manager.producer = "closed") =>
        /\ Calls("producer.send") = 0
        /\ Calls("future.get") = 0

\* The value of reading r on dimension d
ValueOn(r, d) ==
    CASE d = "temperature" -> r.temperature
      [] d = "humidity" -> r.humidity
      [] d = "pressure" -> r.pressure
      [] d = "battery" -> r.battery_level

\* The bound of dimension d whose comparison matches value v, as section 4.2
\* lists the bounds (0 when none matches)
MatchedBound(d, v) ==
    CASE d = "temperature" ->
            IF v >= 3000 THEN 3000 ELSE IF v >= 2600 THEN 2600
            ELSE IF v <= 1800 THEN 1800 ELSE 0
      [] d = "humidity" ->
            IF v >= 9000 THEN 9000 ELSE IF v >= 8000 THEN 8000
            ELSE IF v <= 3000 THEN 3000 ELSE 0
      [] d = "pressure" ->
            IF v >= 102500 THEN 102500 ELSE IF v <= 100000 THEN 100000 ELSE 0
      [] d = "battery" ->
            IF v <= 10 THEN 10 ELSE IF v <= 20 THEN 20 ELSE 0

\* C24: a pressure alert is emitted iff p >= 1025 or p <= 1000, always of
\* severity medium; and every alert of any dimension carries the sensor
\* identifier of the reading, the exact value of the reading on that
\* dimension, and as threshold the bound whose comparison matched (for
\* pressure 1025 when p >= 1025, otherwise 1000).
C24_PressureLadderAndAlertContent ==
    ret.op = "detect_anomalies" =>
        /\ (AlertsOf("pressure") # <<>>)
              <=> (reading.pressure >= 102500 \/ reading.pressure <= 100000)
        /\ Severities("pressure") \subseteq {"medium"}
        /\ \A i \in DOMAIN alerts :
              /\ alerts[i].sensor_id = reading.sensor_id
              /\ alerts[i].value = ValueOn(reading, alerts[i].alert_type)
              /\ alerts[i].threshold = MatchedBound(alerts[i].alert_type, alerts[i].value)

\* C24 witness: a low pressure, one medium alert carrying the pressure and
\* the low bound
C24_Witness ==
    /\ ret.op = "detect_anomalies"
    /\ reading.pressure = 98000
    /\ Len(AlertsOf("pressure")) = 1
    /\ AlertsOf("pressure")[1].severity = "medium"
    /\ AlertsOf("pressure")[1].value = 98000
    /\ AlertsOf("pressure")[1].threshold = 100000

\* C25: get_connection_status reports producer_available and
\* admin_client_available as true only while the handle is live (opened and
\* not released): after close has released both handles both are reported
\* absent, and after a failed initialize no handle is reported present
\* unless it is usable.
C25_StatusReportsLiveHandles ==
    LET status == get_connection_status(kafka_manager)
    IN  /\ status.producer_available => kafka_manager.producer = "open"
        /\ status.admin_client_available => kafka_manager.admin_client = "open"

\* C26: in every state of the coordinator, after any sequence of initialize,
\* ensure_topics_exist, publish_message, publish_batch and close calls with
\* any transport outcomes, is_connected true implies that the producer and
\* the admin client are both present.
C26_ConnectedImpliesHandles ==
    kafka_manager.is_connected =>
        /\ Present(kafka_manager.producer)
        /\ Present(kafka_manager.admin_client)
        /\ get_connection_status(kafka_manager).producer_available
        /\ get_connection_status(kafka_manager).admin_client_available

\* C26 witness: a close that raised after closing the producer: the flag is
\* still true, both handles are still held
C26_Witness ==
    /\ ret.op = "close"
    /\ SomeCallRaised
    /\ Calls("producer.close") = 1
    /\ kafka_manager.is_connected
    /\ Present(kafka_manager.producer)
    /\ Present(kafka_manager.admin_client)

\* C27: once close has completed with is_connected false, every later
\* publish_message returns False without handing anything to the transport
\* and every later publish_batch returns 0 without sending or flushing,
\* until an initialize succeeds: the flag stays false across every call but
\* an initialize that returns True, and while it is false no publish
\* reaches the transport.
C27_ClosedPublishesNothing ==
    [][~kafka_manager.is_connected =>
          /\ ~(ret'.op = "initialize" /\ ret'.value = PyTrue)
                => ~kafka_manager'.is_connected
          /\ ret'.op = "publish_message" =>
                /\ ret'.value = PyFalse
                /\ ~ret'.raised
                /\ \A i \in DOMAIN trace' : trace'[i].call \notin TransportCalls
          /\ ret'.op = "publish_batch" =>
                /\ ret'.count = 0
                /\ ~ret'.raised
                /\ \A i \in DOMAIN trace' : trace'[i].call \notin TransportCalls]_vars

\* C27 witness: a batch of messages handed to a coordinator that close has
\* closed: nothing sent, nothing flushed, 0 returned
C27_Witness ==
    /\ ret.op = "publish_batch"
    /\ ret.args[2] > 0
    /\ ret.count = 0
    /\ trace = <<>>
    /\ ~kafka_manager.is_connected
    /\ kafka_manager.producer = "closed"
    /\ kafka_manager.admin_client = "closed"

\* C28: no counter update is lost under overlapping trigger requests. The
\* handlers are `async def` without an await, so the event loop runs each
\* from its first statement to its return and the interleavings they allow
\* are the sequences of whole handlers; over any such sequence without a
\* reset total_sensors_triggered has grown by the sum of the requested counts
\* and total_events_published by the number of reading publishes that
\* succeeded, which is to say that each accepted request adds its own count
\* and its own successes.
C28_NoLostCounterUpdate ==
    [][(ret'.op \in TriggerHandlers /\ kafka_manager.is_connected) =>
          /\ statistics'.total_sensors_triggered
                = statistics.total_sensors_triggered + ret'.args.count
          /\ statistics'.total_events_published
                = statistics.total_events_published
                  + Cardinality({k \in DOMAIN trace' :
                                    /\ trace'[k].topic = SENSOR_TOPIC
                                    /\ trace'[k].result = PyTrue})]_vars

\* C29: in every state in which no trigger is in progress, after any
\* sequence of triggers, custom triggers, anomaly scenarios and resets with
\* any publish outcomes, both cumulative counters are non-negative and
\* total_events_published <= total_sensors_triggered.
C29_CountersOrdered ==
    /\ statistics.total_events_published >= 0
    /\ statistics.total_sensors_triggered >= 0
    /\ statistics.total_events_published <= statistics.total_sensors_triggered

\* C29 witness: after a reset, a trigger with a failed publish: the counters
\* differ
C29_Witness ==
    /\ ret.op = "trigger_sensors"
    /\ sensor_simulator.event_counter > ret.args.count
    /\ statistics.total_events_published = 1
    /\ statistics.total_sensors_triggered = 2

\* The publish calls of the trace that carried an alert
AlertPublishes == {k \in DOMAIN trace : trace[k].topic = ALERT_TOPIC}

\* C30: the event-counter component of the alert id tells the readings of one
\* trigger request apart: two alerts the request raised from two different
\* readings carry different counter components, so that two alerts of the
\* same dimension raised in the same second never share an alert id; and the
\* alerts of one reading have pairwise distinct ids.
C30_AlertIdsDistinguishReadings ==
    ret.op = "trigger_sensors" =>
        \A k, l \in AlertPublishes :
            /\ trace[k].arg # trace[l].arg
                  => /\ trace[k].alert_id[2] # trace[l].alert_id[2]
                     /\ trace[k].alert_id # trace[l].alert_id
            /\ (trace[k].arg = trace[l].arg /\ k # l)
                  => trace[k].alert_id # trace[l].alert_id

====
